---- MODULE Spec2Model ----
(***************************************************************************)
(* A model of the hyper-http request dispatcher (src/src/core.ts) and of   *)
(* the decorators that build its route table (src/src/decorators.ts).      *)
(*                                                                         *)
(* Strings are sequences of one-character strings, so that split('/'),     *)
(* replaceAll('//','/'), startsWith(':') and slice are computed as the     *)
(* JavaScript computes them.                                               *)
(***************************************************************************)
EXTENDS Integers, Sequences, FiniteSets, TLC

VARIABLES
    jwtSecret,      \* HyperRequest.jwtSecret (constructor argument)
    controllers,    \* HyperRequest.controllers, in addController order
    store,          \* the redis key space: set of [key, val] entries
    rq,             \* per in-flight request: position in handleRequest and its locals
    nreq,           \* number of requests received so far
    pin,            \* input of the pure-function specifications
    pout            \* output of the pure-function specifications

vars == <<jwtSecret, controllers, store, rq, nreq, pin, pout>>

----------------------------------------------------------------------------
(* Bounds *)

MaxRequests == 2        \* requests received in one behaviour
MaxSegs == 2            \* segments after the leading '/' in the matcher's inputs

----------------------------------------------------------------------------
(* JavaScript strings *)

RECURSIVE splitFrom(_, _, _)
splitFrom(s, i, cur) ==
    IF i > Len(s) THEN <<cur>>
    ELSE IF s[i] = "/" THEN <<cur>> \o splitFrom(s, i + 1, <<>>)
    ELSE splitFrom(s, i + 1, Append(cur, s[i]))

\* String.prototype.split('/')
split(s) == splitFrom(s, 1, <<>>)

\* String.prototype.replaceAll(/\/\//g, '/') and replace(/\/\//g, '/'):
\* left to right, non-overlapping
RECURSIVE replaceAllSlashes(_)
replaceAllSlashes(s) ==
    IF Len(s) < 2 THEN s
    ELSE IF s[1] = "/" /\ s[2] = "/"
         THEN <<"/">> \o replaceAllSlashes(SubSeq(s, 3, Len(s)))
         ELSE <<s[1]>> \o replaceAllSlashes(Tail(s))

\* seg.startsWith(':')
startsWithColon(seg) == seg # <<>> /\ seg[1] = ":"

\* seg.slice(1)
slice1(seg) == IF seg = <<>> THEN <<>> ELSE Tail(seg)

\* fullPath.slice(0, -1)
sliceDropLast(s) == IF s = <<>> THEN s ELSE SubSeq(s, 1, Len(s) - 1)

----------------------------------------------------------------------------
(* JavaScript objects with string keys: association lists in insertion     *)
(* order; assigning an existing key keeps its position and replaces its    *)
(* value.                                                                  *)

HasKey(obj, k) == \E i \in 1..Len(obj) : obj[i][1] = k

Get(obj, k) == obj[CHOOSE i \in 1..Len(obj) : obj[i][1] = k][2]

Put(obj, k, v) ==
    IF HasKey(obj, k)
    THEN [i \in 1..Len(obj) |-> IF obj[i][1] = k THEN <<k, v>> ELSE obj[i]]
    ELSE Append(obj, <<k, v>>)

----------------------------------------------------------------------------
(* Path matcher *)

NoMatch == [matched |-> FALSE, params |-> <<>>]

RECURSIVE matchWalk(_, _, _, _)
matchWalk(routeParts, urlParts, i, params) ==
    IF i > Len(routeParts) THEN [matched |-> TRUE, params |-> params]
    ELSE IF startsWithColon(routeParts[i])
         THEN matchWalk(routeParts, urlParts, i + 1,
                        Put(params, slice1(routeParts[i]), urlParts[i]))
    ELSE IF routeParts[i] # urlParts[i] THEN NoMatch
    ELSE matchWalk(routeParts, urlParts, i + 1, params)

\* matchRoute comparing the lengths with > in place of !==
matchRoute_shorterRoute(route, url) ==
    LET routeParts == split(route)
        urlParts == split(url)
    IN  IF Len(routeParts) > Len(urlParts) THEN NoMatch
        ELSE matchWalk(routeParts, urlParts, 1, <<>>)

\* HyperRequest.matchRoute: null is [matched |-> FALSE]
matchRoute(route, url) ==
    LET routeParts == split(route)
        urlParts == split(url)
    IN  IF Len(routeParts) # Len(urlParts) THEN NoMatch
        ELSE matchWalk(routeParts, urlParts, 1, <<>>)

\* the dispatcher's inline structural test (without the method comparison)
inlineTest(fullPath, pathname) ==
    LET fullPathSegments == split(fullPath)
        pathSegments == split(pathname)
    IN  /\ Len(fullPathSegments) = Len(pathSegments)
        /\ \A i \in 1..Len(fullPathSegments) :
              startsWithColon(fullPathSegments[i]) \/ fullPathSegments[i] = pathSegments[i]

\* fullPathSegments.forEach: params.params[seg.slice(1)] = pathSegments[i]
RECURSIVE assignCaptures(_, _, _, _)
assignCaptures(params, fullPathSegments, pathSegments, i) ==
    IF i > Len(fullPathSegments) THEN params
    ELSE assignCaptures(
            IF startsWithColon(fullPathSegments[i])
            THEN Put(params, slice1(fullPathSegments[i]), pathSegments[i])
            ELSE params,
            fullPathSegments, pathSegments, i + 1)

----------------------------------------------------------------------------
(* The application's controller classes: what the decorators are applied   *)
(* to.  A member is an instance method or a static method; verb "none"     *)
(* means the member carries no route decorator; cacheTTL 0 means it        *)
(* carries no @Cache; bindings are its parameter decorators in parameter   *)
(* order.  Static and instance members live in separate namespaces, so a   *)
(* class may hold one of each under the same name.                         *)

Member(name, static, verb, path, cacheTTL, bindings) ==
    [name |-> name, static |-> static, verb |-> verb, path |-> path,
     cacheTTL |-> cacheTTL, bindings |-> bindings]

Classes ==
    [ A |-> [prefix |-> <<"a">>,
             members |-> <<
                Member("show",   FALSE, "get",  <<":", "x">>, 0, <<"Param">>),
                Member("fixed",  FALSE, "get",  <<"b">>,      0, <<>>),
                Member("create", FALSE, "post", <<"b">>,      0, <<"Body", "BearerAuth">>) >>],
      B |-> [prefix |-> <<"a">>,
             members |-> <<
                Member("report", FALSE, "get",  <<"b">>, 60, <<"BearerAuth">>),
                Member("report", TRUE,  "none", <<>>,    30, <<"BearerAuth">>),
                Member("stats",  FALSE, "get",  <<"c">>, 60, <<"Query">>),
                Member("secure", FALSE, "post", <<"b">>, 60, <<"Body", "BearerAuth">>),
                Member("secure", TRUE,  "none", <<>>,    30, <<"Headers", "BearerAuth">>) >>] ]

ClassNames == DOMAIN Classes

----------------------------------------------------------------------------
(* Decorators and reflect-metadata.  A decorator of an instance member     *)
(* receives the class prototype as target, one of a static member the      *)
(* constructor; metadata defined on one object is not own metadata of the  *)
(* other, and the prototype is not on the constructor's prototype chain.   *)

Undefined == [t |-> "undefined"]
JsNumber(n) == [t |-> "number", v |-> n]

DecoratorTarget(m) == IF m.static THEN "ctor" ELSE "proto"

\* target.constructor
ConstructorOf(target) == IF target = "proto" THEN "ctor" ELSE "Function"

\* Controller(path): 'prefix' metadata on the class
Controller(cls) == Classes[cls].prefix

\* the prefix createMethodDecorator reads: member decorators run before the
\* class decorator, so the 'prefix' metadata is not yet defined and || '' applies
prefixAtMethodDecoration == <<>>

\* createMethodDecorator: the RouteDefinition pushed for member m
createMethodDecorator(m) ==
    [requestMethod |-> m.verb,
     path |-> replaceAllSlashes(prefixAtMethodDecoration \o <<"/">> \o m.path),
     methodName |-> m.name]

\* Reflect.getMetadata('routes', ctor): members in declaration order whose
\* route decorator wrote to target.constructor = ctor
RoutesOf(cls) ==
    LET ms == SelectSeq(Classes[cls].members,
                        LAMBDA m : m.verb # "none" /\ ConstructorOf(DecoratorTarget(m)) = "ctor")
    IN  [i \in 1..Len(ms) |-> createMethodDecorator(ms[i])]

\* the members a decorator of the given kind was applied to
CacheMembers(cls) ==
    {i \in 1..Len(Classes[cls].members) : Classes[cls].members[i].cacheTTL > 0}

\* Cache: 'cachedMethods' is defined on target.constructor
CachedMethodsOf(cls) ==
    {Classes[cls].members[i].name : i \in
        {j \in CacheMembers(cls) :
            ConstructorOf(DecoratorTarget(Classes[cls].members[j])) = "ctor"}}

\* Cache: 'cacheTtl' is defined on (target, propertyKey)
CacheTtlOwn(cls, target, prop) ==
    LET hits == {i \in CacheMembers(cls) :
                    /\ DecoratorTarget(Classes[cls].members[i]) = target
                    /\ Classes[cls].members[i].name = prop}
    IN  IF hits = {} THEN Undefined
        ELSE JsNumber(Classes[cls].members[CHOOSE i \in hits : TRUE].cacheTTL)

\* Cache: descriptor.value of the instance method is replaced by the caching wrapper
IsWrapped(cls, prop) ==
    \E i \in CacheMembers(cls) :
        /\ ~Classes[cls].members[i].static
        /\ Classes[cls].members[i].name = prop

\* the TTL captured by the wrapper's closure
WrapperTTL(cls, prop) == CacheTtlOwn(cls, "proto", prop)

\* the parameter indexes (0-based) of the BearerAuth parameters of a member,
\* in decorator application order (last parameter first)
RECURSIVE AuthIndexes(_, _)
AuthIndexes(bindings, i) ==
    IF i = 0 THEN <<>>
    ELSE IF bindings[i] = "BearerAuth"
         THEN <<[index |-> i - 1, name |-> "__allAuthParams"]>> \o AuthIndexes(bindings, i - 1)
         ELSE AuthIndexes(bindings, i - 1)

\* BearerAuth: 'auth' is defined on (target, propertyKey)
AuthOwn(cls, target, prop) ==
    LET hits == {i \in 1..Len(Classes[cls].members) :
                    /\ DecoratorTarget(Classes[cls].members[i]) = target
                    /\ Classes[cls].members[i].name = prop
                    /\ AuthIndexes(Classes[cls].members[i].bindings,
                                   Len(Classes[cls].members[i].bindings)) # <<>>}
    IN  IF hits = {} THEN <<>>
        ELSE LET m == Classes[cls].members[CHOOSE i \in hits : TRUE]
             IN  AuthIndexes(m.bindings, Len(m.bindings))

\* Reflect.getMetadata('cacheTtl', controllerInstance.constructor, methodName):
\* own metadata of the constructor, then of Function.prototype and
\* Object.prototype, which hold none
getCacheTtl(cls, prop) == CacheTtlOwn(cls, "ctor", prop)

\* Reflect.getOwnMetadata('auth', controllerInstance.constructor, methodName);
\* <<>> stands for undefined
getAuthParams(cls, prop) == AuthOwn(cls, "ctor", prop)

----------------------------------------------------------------------------
(* JSON and the values that travel through a request *)

NaN == [t |-> "NaN"]
JsNull == [t |-> "null"]
Unset == [t |-> "unset"]

\* what a handler may return: a number, or NaN (which JSON writes as null)
Results == {JsNumber(1), NaN}

\* JSON.stringify: the text is identified by the value JSON.parse reads back
JSONstringify(v) == [json |-> IF v = NaN THEN JsNull ELSE v]

JSONparse(text) == text.json

\* the outcome of a call that throws instead of returning a value
Throws == [t |-> "throws"]

ErrorObject(msg) == [t |-> "error", v |-> msg]

----------------------------------------------------------------------------
(* ServerResponse *)

NewResponse ==
    [statusCode |-> 200, contentType |-> "", xCache |-> "", cacheControl |-> Unset,
     body |-> Unset, ended |-> 0]

\* res.end(chunk)
end(res, chunk) == [res EXCEPT !.body = chunk, !.ended = @ + 1]

\* unauthorized without its res.end
unauthorized_noEnd(res) ==
    [res EXCEPT !.statusCode = 401, !.contentType = "application/json"]

unauthorized(res) ==
    end([res EXCEPT !.statusCode = 401, !.contentType = "application/json"],
        JSONstringify(ErrorObject("Unauthorized")))

notFound(res) ==
    end([res EXCEPT !.statusCode = 404, !.contentType = "application/json"],
        JSONstringify(ErrorObject("Not found")))

internalServerError(res) ==
    end([res EXCEPT !.statusCode = 500, !.contentType = "application/json"],
        JSONstringify(ErrorObject("Internal Server Error")))

\* the three statements that answer with a handler result
respondResult(res, result) ==
    end([res EXCEPT !.contentType = "application/json"], JSONstringify(result))

\* the answer from the cache without its X-Cache header
respondCached_noMarker(res, cachedResult, TTL) ==
    end([res EXCEPT !.cacheControl = [t |-> "public, max-age", v |-> TTL],
                    !.contentType = "application/json"], cachedResult)

\* the four statements that answer from the cache
respondCached(res, cachedResult, TTL) ==
    end([res EXCEPT !.xCache = "HIT",
                    !.cacheControl = [t |-> "public, max-age", v |-> TTL],
                    !.contentType = "application/json"], cachedResult)

----------------------------------------------------------------------------
(* Requests *)

Methods == {"get", "post"}

Pathnames == { <<"/", "a", "/", "b">>, <<"/", "a", "/", "c">>, <<"/", "a">> }

\* the Authorization header: absent, or a bearer token that is malformed or
\* badly signed, or a bearer token the signing secret verifies
AuthHeaders == {"absent", "bearer_bad", "bearer_good"}

ContentTypes == {"application/json", "text/plain"}

Queries == {""}

\* what the body stream delivers: a JSON text, or text JSON.parse rejects
Bodies == {"b1", "invalid"}

Requests ==
    [method : Methods, pathname : Pathnames, authorization : AuthHeaders,
     contentType : ContentTypes, query : Queries]

\* the secret the tokens of this model are signed with
SigningSecret == "s"

\* jsonwebtoken verify(token, secret, {ignoreExpiration: true})
verify(header, secret) ==
    IF header = "bearer_good" /\ secret = SigningSecret
    THEN [ok |-> TRUE, claims |-> [t |-> "claims", v |-> header]]
    ELSE [ok |-> FALSE, claims |-> Unset]

\* bearerHeader && bearerHeader.startsWith('Bearer ')
hasBearer(header) == header \in {"bearer_bad", "bearer_good"}

----------------------------------------------------------------------------
(* The route loop of handleRequest *)

\* `/${prefix}/${route.path}`.replaceAll(/\/\//g, '/'), less a final character
\* when route.path is '/'
fullPathOf(prefix, route) ==
    LET joined == replaceAllSlashes(<<"/">> \o prefix \o <<"/">> \o route.path)
    IN  IF route.path = <<"/">> THEN sliceDropLast(joined) ELSE joined

\* the routes in the order the two nested loops visit them
RECURSIVE RouteTable(_)
RouteTable(ctrls) ==
    IF ctrls = <<>> THEN <<>>
    ELSE LET cls == Head(ctrls)
             rs == RoutesOf(cls)
         IN  [i \in 1..Len(rs) |->
                 [cls |-> cls, route |-> rs[i],
                  fullPath |-> fullPathOf(Controller(cls), rs[i])]]
             \o RouteTable(Tail(ctrls))

\* the condition of the if statement in the inner loop
routeMatches(entry, req) ==
    /\ req.method = entry.route.requestMethod
    /\ inlineTest(entry.fullPath, req.pathname)

\* the loops without their return: the last matching entry wins
lastMatchFrom(table, req, i) ==
    LET hits == {j \in i..Len(table) : routeMatches(table[j], req)}
    IN  IF hits = {} THEN 0 ELSE CHOOSE j \in hits : \A k \in hits : k <= j

\* the index, from i on, of the entry the loops stop at, 0 when they run to the end
RECURSIVE firstMatchFrom(_, _, _)
firstMatchFrom(table, req, i) ==
    IF i > Len(table) THEN 0
    ELSE IF routeMatches(table[i], req) THEN i
    ELSE firstMatchFrom(table, req, i + 1)


----------------------------------------------------------------------------
(* The state of one call of handleRequest *)

Slots == {1, 2}

NoKey == [kind |-> "none", path |-> <<>>, params |-> <<>>, prop |-> "", args |-> <<>>]

NoRequest ==
    [method |-> "", pathname |-> <<>>, authorization |-> "absent",
     contentType |-> "", query |-> ""]

NoParams ==
    [body |-> "{}", params |-> <<>>, headers |-> [authorization |-> "absent", contentType |-> ""],
     query |-> "", auth |-> <<>>]

Idle ==
    [pc |-> "idle", req |-> NoRequest, idx |-> 0, cls |-> "", methodName |-> "",
     fullPath |-> <<>>, params |-> NoParams, cacheKey |-> NoKey, TTL |-> Undefined,
     cachedResult |-> Unset, site |-> "", args |-> <<>>, result |-> Unset,
     res |-> NewResponse, log |-> <<>>]

Event(e, k) == [e |-> e, k |-> k]

Logged(s, e, k) == [s EXCEPT !.log = Append(@, Event(e, k))]

\* handleRequest without its try/catch: the error leaves the call unanswered
catch_rethrows(s) == [s EXCEPT !.pc = "escaped"]

\* the catch block of handleRequest
catch(s) == [s EXCEPT !.pc = "done", !.res = internalServerError(@)]

\* an awaited cache-store call on `key` rejects and the catch block runs
rejected(s, key) == catch(Logged(s, "rejected", key))

\* the integer-like keys of params, which Object.values lists first, ascending
RECURSIVE integerKeyValues(_, _)
integerKeyValues(auth, i) ==
    IF i > 3 THEN <<>>
    ELSE (IF HasKey(auth, i) THEN <<Get(auth, i)>> ELSE <<>>) \o integerKeyValues(auth, i + 1)

\* Object.values(params)
ObjectValues(params) ==
    integerKeyValues(params.auth, 0)
    \o << [t |-> "body", v |-> params.body], [t |-> "params", v |-> params.params],
           [t |-> "headers", v |-> params.headers], [t |-> "query", v |-> params.query] >>

\* controllerInstance[route.methodName](...Object.values(params))
invoke(s, site) ==
    LET called == Logged([s EXCEPT !.site = site, !.args = ObjectValues(s.params)],
                         "call", NoKey)
    IN  [called EXCEPT !.pc = IF IsWrapped(s.cls, s.methodName) THEN "wget" ELSE "orig"]

\* the key of the wrapper that Cache installs
wrapperKey(s) ==
    [kind |-> "method", path |-> <<>>, params |-> <<>>, prop |-> s.methodName, args |-> s.args]

\* the handler has returned `result` to its call site
returned(s, result) ==
    IF s.site = "cached"
    THEN [s EXCEPT !.pc = "set", !.result = result]
    ELSE [s EXCEPT !.pc = "done", !.result = result, !.res = respondResult(@, result)]

\* params[param.index] = req['auth'] for every auth parameter
RECURSIVE bindAuth(_, _, _)
bindAuth(auth, authParams, claims) ==
    IF authParams = <<>> THEN auth
    ELSE bindAuth(Put(auth, Head(authParams).index, claims), Tail(authParams), claims)

\* the part of the matched branch after the bearer check
afterAuth(s) ==
    LET keyed == [s EXCEPT !.cacheKey = [kind |-> "route", path |-> s.fullPath,
                                         params |-> s.params.params, prop |-> "",
                                         args |-> <<>>]]
    IN  IF s.methodName \in CachedMethodsOf(s.cls)
        THEN [keyed EXCEPT !.pc = "get", !.TTL = getCacheTtl(s.cls, s.methodName)]
        ELSE invoke(keyed, "plain")

\* the bearer check with the return after unauthorized(res) left out
authenticate_noReturn(s, secret) ==
    LET authParams == getAuthParams(s.cls, s.methodName)
        bearerHeader == s.req.authorization
        decoded == verify(bearerHeader, secret)
    IN  IF authParams = <<>> THEN afterAuth(s)
        ELSE IF ~hasBearer(bearerHeader)
             THEN afterAuth([Logged(s, "auth_fail", NoKey) EXCEPT !.res = unauthorized(@)])
        ELSE IF secret = ""
             THEN [Logged(s, "auth_fail", NoKey) EXCEPT
                      !.pc = "done", !.res = internalServerError(@)]
        ELSE IF ~decoded.ok
             THEN [Logged(s, "auth_fail", NoKey) EXCEPT !.pc = "done", !.res = unauthorized(@)]
        ELSE afterAuth([Logged(s, "auth_ok", NoKey) EXCEPT
                           !.params.auth = bindAuth(@, authParams, decoded.claims)])

\* the bearer check ("JWT logic")
authenticate(s, secret) ==
    LET authParams == getAuthParams(s.cls, s.methodName)
        bearerHeader == s.req.authorization
        decoded == verify(bearerHeader, secret)
    IN  IF authParams = <<>> THEN afterAuth(s)
        ELSE IF ~hasBearer(bearerHeader)
             THEN [Logged(s, "auth_fail", NoKey) EXCEPT !.pc = "done", !.res = unauthorized(@)]
        ELSE IF secret = ""
             THEN [Logged(s, "auth_fail", NoKey) EXCEPT
                      !.pc = "done", !.res = internalServerError(@)]
        ELSE IF ~decoded.ok
             THEN [Logged(s, "auth_fail", NoKey) EXCEPT !.pc = "done", !.res = unauthorized(@)]
        ELSE afterAuth([Logged(s, "auth_ok", NoKey) EXCEPT
                           !.params.auth = bindAuth(@, authParams, decoded.claims)])

\* extractParams reads the body only of a non-GET request with a JSON content type
readsBody(req) == req.method # "get" /\ req.contentType = "application/json"

RECURSIVE scan(_, _, _, _)
RECURSIVE afterExtract(_, _, _, _)

\* the rest of the matched branch once extractParams has returned with `body`
afterExtract(s, body, ctrls, secret) ==
    LET routeParams == matchRoute(s.fullPath, s.req.pathname)
        extracted == [s EXCEPT !.params =
                         [body |-> body,
                          params |-> assignCaptures(routeParams.params, split(s.fullPath),
                                                    split(s.req.pathname), 1),
                          headers |-> [authorization |-> s.req.authorization,
                                       contentType |-> s.req.contentType],
                          query |-> s.req.query, auth |-> <<>>]]
    IN  IF ~routeParams.matched THEN scan(s, s.idx + 1, ctrls, secret)
        ELSE authenticate(extracted, secret)

\* the two loops from table position `from` on, up to the first await that
\* does not return at once
scan(s, from, ctrls, secret) ==
    LET table == RouteTable(ctrls)
        i == firstMatchFrom(table, s.req, from)
        at == [s EXCEPT !.idx = i, !.cls = table[i].cls,
                        !.methodName = table[i].route.methodName,
                        !.fullPath = table[i].fullPath]
    IN  IF i = 0 THEN [s EXCEPT !.pc = "done", !.res = notFound(@)]
        ELSE IF readsBody(s.req) THEN [at EXCEPT !.pc = "body"]
        ELSE afterExtract(at, "{}", ctrls, secret)

----------------------------------------------------------------------------
(* The cache store (redis) *)

Lookup(st, key) == {e \in st : e.key = key}

\* SET key value EX ttl is refused unless ttl is a positive integer
validExpiry(ttl) == ttl.t = "number" /\ ttl.v > 0

redisSet(st, key, val, ttl) ==
    {e \in st : e.key # key} \cup {[key |-> key, val |-> val, ttl |-> ttl]}

----------------------------------------------------------------------------
(* Actions *)

Init ==
    /\ jwtSecret \in {"", SigningSecret}
    /\ controllers = <<>>
    /\ store = {}
    /\ rq = [r \in Slots |-> Idle]
    /\ nreq = 0
    /\ pin = <<>>
    /\ pout = <<>>

\* addController(controller); the application registers each controller once
AddController(cls) ==
    /\ \A i \in 1..Len(controllers) : controllers[i] # cls
    /\ controllers' = Append(controllers, cls)
    /\ UNCHANGED <<jwtSecret, store, rq, nreq, pin, pout>>

\* handleRequest from its first statement to its first await that does not
\* return at once
received(req) == scan([Idle EXCEPT !.req = req], 1, controllers, jwtSecret)

\* the server calls handleRequest(req, res)
Receive(r, req) ==
    /\ rq[r].pc \in {"idle", "done"}
    /\ nreq < MaxRequests
    /\ nreq' = nreq + 1
    /\ rq' = [rq EXCEPT ![r] = received(req)]
    /\ UNCHANGED <<jwtSecret, controllers, store, pin, pout>>

\* getJsonBody settles: the stream ended with `text`
BodyEnd(r, text) ==
    /\ rq[r].pc = "body"
    /\ rq' = [rq EXCEPT ![r] =
                IF text = "invalid" THEN catch(@)
                ELSE afterExtract(@, text, controllers, jwtSecret)]
    /\ UNCHANGED <<jwtSecret, controllers, store, nreq, pin, pout>>

\* await redis.get(cacheKey) settles
CacheGet(r, up) ==
    /\ rq[r].pc = "get"
    /\ LET s == Logged(rq[r], "get", rq[r].cacheKey)
           found == Lookup(store, s.cacheKey)
           cachedResult == IF found = {} THEN JsNull ELSE (CHOOSE e \in found : TRUE).val
           got == [s EXCEPT !.cachedResult = cachedResult]
       IN  rq' = [rq EXCEPT ![r] =
                    IF ~up THEN rejected(s, s.cacheKey)
                    ELSE IF cachedResult # JsNull
                         THEN [got EXCEPT !.pc = "done",
                                          !.res = respondCached(@, cachedResult, s.TTL)]
                    ELSE invoke(got, "cached")]
    /\ UNCHANGED <<jwtSecret, controllers, store, nreq, pin, pout>>

\* the wrapper's await redis.get(cacheKey) settles
WrapperGet(r, up) ==
    /\ rq[r].pc = "wget"
    /\ LET s == Logged(rq[r], "get", wrapperKey(rq[r]))
           found == Lookup(store, wrapperKey(s))
       IN  rq' = [rq EXCEPT ![r] =
                    IF ~up THEN rejected(s, wrapperKey(s))
                    ELSE IF found # {}
                         THEN returned(s, JSONparse((CHOOSE e \in found : TRUE).val))
                    ELSE [s EXCEPT !.pc = "orig"]]
    /\ UNCHANGED <<jwtSecret, controllers, store, nreq, pin, pout>>

\* the controller's own method runs and returns or throws
Original(r, outcome) ==
    /\ rq[r].pc = "orig"
    /\ LET s == Logged(rq[r], "run", NoKey)
       IN  rq' = [rq EXCEPT ![r] =
                    IF outcome = Throws THEN catch(s)
                    ELSE IF IsWrapped(s.cls, s.methodName)
                         THEN [s EXCEPT !.pc = "wset", !.result = outcome]
                    ELSE returned(s, outcome)]
    /\ UNCHANGED <<jwtSecret, controllers, store, nreq, pin, pout>>

\* the wrapper's await redis.set(cacheKey, JSON.stringify(result), 'EX', TTL) settles
WrapperSet(r, up) ==
    /\ rq[r].pc = "wset"
    /\ LET s == Logged(rq[r], "set", wrapperKey(rq[r]))
           ttl == WrapperTTL(s.cls, s.methodName)
           ok == up /\ validExpiry(ttl)
       IN  /\ rq' = [rq EXCEPT ![r] = IF ok THEN returned(s, s.result)
                                       ELSE rejected(s, wrapperKey(s))]
           /\ store' = IF ok THEN redisSet(store, wrapperKey(s), JSONstringify(s.result), ttl)
                       ELSE store
    /\ UNCHANGED <<jwtSecret, controllers, nreq, pin, pout>>

\* await redis.set(cacheKey, JSON.stringify(result), 'EX', TTL) settles
CacheSet(r, up) ==
    /\ rq[r].pc = "set"
    /\ LET s == Logged(rq[r], "set", rq[r].cacheKey)
           ok == up /\ validExpiry(s.TTL)
       IN  /\ rq' = [rq EXCEPT ![r] =
                        IF ok THEN [s EXCEPT !.pc = "done", !.res = respondResult(@, s.result)]
                        ELSE rejected(s, s.cacheKey)]
           /\ store' = IF ok THEN redisSet(store, s.cacheKey, JSONstringify(s.result), s.TTL)
                       ELSE store
    /\ UNCHANGED <<jwtSecret, controllers, nreq, pin, pout>>

\* an entry's time to live runs out
Expire(e) ==
    /\ e \in store
    /\ store' = store \ {e}
    /\ UNCHANGED <<jwtSecret, controllers, rq, nreq, pin, pout>>

\* the steps of the request in slot r
Step(r) ==
    \/ \E req \in Requests : Receive(r, req)
    \/ \E text \in Bodies : BodyEnd(r, text)
    \/ \E up \in BOOLEAN : CacheGet(r, up)
    \/ \E up \in BOOLEAN : WrapperGet(r, up)
    \/ \E outcome \in Results \cup {Throws} : Original(r, outcome)
    \/ \E up \in BOOLEAN : WrapperSet(r, up)
    \/ \E up \in BOOLEAN : CacheSet(r, up)

\* one worker handling its requests one after the other
Next ==
    \/ \E cls \in ClassNames : AddController(cls)
    \/ Step(1)
    \/ \E e \in store : Expire(e)

Spec == Init /\ [][Next]_vars

----------------------------------------------------------------------------
(* Reading a request's log *)

Positions(log, e) == {i \in 1..Len(log) : log[i].e = e}

Happened(s, e) == Positions(s.log, e) # {}

\* the cache-store calls and handler invocations of a request
WorkEvents == {"get", "set", "call", "run"}

\* the instance method behind a matched request declares a BearerAuth parameter
DeclaresAuth(s) == s.idx > 0 /\ AuthOwn(s.cls, "proto", s.methodName) # <<>>

\* the matched route's method carries @Cache
Cacheable(s) == s.idx > 0 /\ s.methodName \in CachedMethodsOf(s.cls)

----------------------------------------------------------------------------
(* C1: on every path through handleRequest the response is ended at most   *)
(* once, and a completed handleRequest has ended it exactly once.          *)

C1_EndedExactlyOnce ==
    \A r \in Slots :
        /\ rq[r].res.ended <= 1
        /\ rq[r].pc = "done" => rq[r].res.ended = 1
        /\ rq[r].pc \notin {"idle", "done"} => rq[r].res.ended = 0

\* a request whose bearer check failed has completed with its one response
C1_Witness ==
    \E r \in Slots :
        /\ rq[r].pc = "done"
        /\ Happened(rq[r], "auth_fail")
        /\ rq[r].res.statusCode = 401
        /\ rq[r].res.ended = 1

----------------------------------------------------------------------------
(* C2: a request that matches a route whose handler declares an auth       *)
(* parameter and that carries no Authorization header is answered 401 and  *)
(* its handler is never invoked.                                           *)

C2_NoHeaderIs401 ==
    \A r \in Slots :
        (DeclaresAuth(rq[r]) /\ rq[r].req.authorization = "absent")
            => /\ ~Happened(rq[r], "call")
               /\ rq[r].pc = "done" => rq[r].res.statusCode = 401

----------------------------------------------------------------------------
(* C3: for a request to a route whose handler declares an auth parameter,  *)
(* every cache-store call and every handler invocation comes after the     *)
(* bearer check has succeeded, and none comes after it has failed.         *)

C3_AuthFirst ==
    \A r \in Slots :
        DeclaresAuth(rq[r])
            => \A i \in 1..Len(rq[r].log) :
                  rq[r].log[i].e \in WorkEvents
                      => /\ \E j \in 1..(i - 1) : rq[r].log[j].e = "auth_ok"
                         /\ ~\E j \in 1..Len(rq[r].log) : rq[r].log[j].e = "auth_fail"

----------------------------------------------------------------------------
(* C4: when the get of the derived key returns a stored value, the         *)
(* response body is that stored string, X-Cache: HIT is set, the handler   *)
(* is not invoked and no set is issued for the request.                    *)

\* the step in which the awaited redis.get of slot r returns a stored value
GetReturnsValue(r) ==
    /\ rq[r].pc = "get"
    /\ rq'[r].pc # "get"
    /\ rq'[r].cachedResult \notin {Unset, JsNull}

C4_HitServesStored ==
    [][\A r \in Slots :
          GetReturnsValue(r)
              => /\ \E e \in store : /\ e.key = rq[r].cacheKey
                                     /\ rq'[r].res.body = e.val
                 /\ rq'[r].res.xCache = "HIT"
                 /\ rq'[r].res.ended = 1
                 /\ rq'[r].pc = "done"
                 /\ ~Happened(rq'[r], "call")
                 /\ ~Happened(rq'[r], "set")
                 /\ store' = store]_vars

\* a request was answered from the cache
C4_Witness ==
    \E r \in Slots :
        /\ rq[r].pc = "done"
        /\ rq[r].cachedResult \notin {Unset, JsNull}
        /\ rq[r].res.xCache = "HIT"
        /\ rq[r].res.body = rq[r].cachedResult

----------------------------------------------------------------------------
(* C6: of the registered routes a request matches by method and path       *)
(* structure, the one registered first is selected: controllers in         *)
(* addController order, the routes of a controller in declaration order.   *)

\* the registered routes a request matches: <<position of the controller,
\* position of the member in its class>>
Candidates(req) ==
    {c \in (1..Len(controllers)) \X (1..5) :
        /\ c[2] <= Len(Classes[controllers[c[1]]].members)
        /\ LET cls == controllers[c[1]]
               m == Classes[cls].members[c[2]]
           IN  /\ ~m.static
               /\ m.verb = req.method
               /\ matchRoute(fullPathOf(Controller(cls), createMethodDecorator(m)),
                             req.pathname).matched}

RegisteredBefore(c, d) == c[1] < d[1] \/ (c[1] = d[1] /\ c[2] <= d[2])

C6_FirstRegisteredWins ==
    \A r \in Slots :
        rq[r].idx > 0
            => \E c \in Candidates(rq[r].req) :
                  /\ \A d \in Candidates(rq[r].req) : RegisteredBefore(c, d)
                  /\ rq[r].cls = controllers[c[1]]
                  /\ rq[r].methodName = Classes[controllers[c[1]]].members[c[2]].name

\* a handler was invoked for a request that routes of two controllers match
C6_Witness ==
    \E r \in Slots :
        /\ Happened(rq[r], "call")
        /\ \E c, d \in Candidates(rq[r].req) : c[1] # d[1]
        /\ \E c, d \in Candidates(rq[r].req) : c[1] = d[1] /\ c[2] # d[2]

----------------------------------------------------------------------------
(* C8: the handler is invoked with exactly one positional argument per     *)
(* declared parameter binding, in declaration order.                       *)

\* the instance method of the matched route
DeclaredMember(s) ==
    LET ms == Classes[s.cls].members
    IN  ms[CHOOSE i \in 1..Len(ms) : ~ms[i].static /\ ms[i].name = s.methodName]

\* the value a binding stands for
BindingValue(b, s) ==
    CASE b = "Body" -> [t |-> "body", v |-> s.params.body]
      [] b = "Param" -> [t |-> "params", v |-> s.params.params]
      [] b = "Headers" -> [t |-> "headers", v |-> s.params.headers]
      [] b = "Query" -> [t |-> "query", v |-> s.params.query]
      [] b = "BearerAuth" -> verify(s.req.authorization, jwtSecret).claims

C8_ArgsFollowBindings ==
    \A r \in Slots :
        Happened(rq[r], "call")
            => LET bindings == DeclaredMember(rq[r]).bindings
               IN  /\ Len(rq[r].args) = Len(bindings)
                   /\ \A i \in 1..Len(bindings) :
                          rq[r].args[i] = BindingValue(bindings[i], rq[r])

----------------------------------------------------------------------------
(* C9: when the cache-store set of a request that missed the cache fails,  *)
(* the request still succeeds with the handler's result as JSON.           *)

\* the dispatcher's cache-store call `op` on the derived key rejected
Rejected(s, op) ==
    \E i \in 1..(Len(s.log) - 1) :
        /\ s.log[i].e = op
        /\ s.log[i].k = s.cacheKey
        /\ s.log[i + 1].e = "rejected"

C9_SetFailureStillSucceeds ==
    \A r \in Slots :
        (rq[r].pc = "done" /\ Rejected(rq[r], "set"))
            => /\ rq[r].res.statusCode = 200
               /\ rq[r].res.body = JSONstringify(rq[r].result)

----------------------------------------------------------------------------
(* C10: when the cache-store get of a request fails, the failure is taken  *)
(* as a miss: the handler is invoked, and no error response is sent on     *)
(* account of the cache store.                                             *)

C10_GetFailureIsMiss ==
    \A r \in Slots :
        (rq[r].pc = "done" /\ Rejected(rq[r], "get"))
            => /\ Happened(rq[r], "call")
               /\ rq[r].res.statusCode = 500 => rq[r].log[Len(rq[r].log)].e = "run"

----------------------------------------------------------------------------
(* The path matcher on its own: matchRoute and the dispatcher's inline     *)
(* test applied to one pattern and one request path.                       *)

PatternSegments == {<<>>, <<"a">>, <<"b">>, <<":", "x">>, <<":", "y">>}

PathSegments == {<<>>, <<"a">>, <<"b">>, <<"B">>, <<":", "x">>}

RECURSIVE joinSegments(_)
joinSegments(segs) ==
    IF segs = <<>> THEN <<>> ELSE <<"/">> \o Head(segs) \o joinSegments(Tail(segs))

\* the strings '' and '/s1', '/s1/s2', ... of at most MaxSegs segments
PathStrings(segments) ==
    {joinSegments(q) : q \in UNION {[1..k -> segments] : k \in 0..MaxSegs}}

NotMatched == [done |-> FALSE, route |-> NoMatch, inline |-> FALSE, params |-> <<>>]

MatchInit ==
    /\ jwtSecret = ""
    /\ controllers = <<>>
    /\ store = {}
    /\ rq = [r \in Slots |-> Idle]
    /\ nreq = 0
    /\ pin \in [route : PathStrings(PatternSegments), url : PathStrings(PathSegments)]
    /\ pout = NotMatched

\* the dispatcher's test, then matchRoute inside extractParams, then the
\* assignment of the captures
Match ==
    /\ ~pout.done
    /\ LET inline == inlineTest(pin.route, pin.url)
           routeParams == matchRoute(pin.route, pin.url)
       IN  pout' = [done |-> TRUE, route |-> routeParams, inline |-> inline,
                    params |-> IF inline /\ routeParams.matched
                               THEN assignCaptures(routeParams.params, split(pin.route),
                                                   split(pin.url), 1)
                               ELSE <<>>]
    /\ UNCHANGED <<jwtSecret, controllers, store, rq, nreq, pin>>

MatchNext == Match

MatchSpec == MatchInit /\ [][MatchNext]_vars

----------------------------------------------------------------------------
(* C7: the matcher returns a match exactly when pattern and path have the  *)
(* same number of segments and every literal pattern segment equals the    *)
(* path segment at its position; on a match every capture ':name' is       *)
(* recorded as name -> the path segment at its position; and the inline    *)
(* test agrees with matchRoute.                                            *)

StructuralMatch(route, url) ==
    /\ Len(split(route)) = Len(split(url))
    /\ \A i \in 1..Len(split(route)) :
          ~startsWithColon(split(route)[i]) => split(route)[i] = split(url)[i]

CapturePositions(route) == {i \in 1..Len(split(route)) : startsWithColon(split(route)[i])}

\* the claim as stated: every capture holds the segment at its own position
C7_MatcherAsStated ==
    pout.done
        => /\ pout.route.matched <=> StructuralMatch(pin.route, pin.url)
           /\ pout.inline <=> pout.route.matched
           /\ pout.route.matched
                 => \A i \in CapturePositions(pin.route) :
                       /\ HasKey(pout.route.params, slice1(split(pin.route)[i]))
                       /\ Get(pout.route.params, slice1(split(pin.route)[i])) = split(pin.url)[i]

\* the last position at which the capture of position i is named again
LastNamed(route, i) ==
    CHOOSE j \in CapturePositions(route) :
        /\ split(route)[j] = split(route)[i]
        /\ \A k \in CapturePositions(route) : split(route)[k] = split(route)[i] => k <= j

\* C7 as amended: a name that occurs at several capture positions holds the
\* path segment at the last of them
C7_Matcher ==
    pout.done
        => /\ pout.route.matched <=> StructuralMatch(pin.route, pin.url)
           /\ pout.inline <=> pout.route.matched
           /\ pout.route.matched
                 => /\ pout.params = pout.route.params
                    /\ Len(pout.route.params)
                          = Cardinality({split(pin.route)[i] : i \in CapturePositions(pin.route)})
                    /\ \A i \in CapturePositions(pin.route) :
                          /\ HasKey(pout.route.params, slice1(split(pin.route)[i]))
                          /\ Get(pout.route.params, slice1(split(pin.route)[i]))
                                = split(pin.url)[LastNamed(pin.route, i)]

\* a pattern with a literal and a capture matched a path
C7_Witness ==
    /\ pout.done
    /\ pout.route.matched
    /\ pout.inline
    /\ CapturePositions(pin.route) # {}
    /\ \E i \in 2..Len(split(pin.route)) :
          ~startsWithColon(split(pin.route)[i]) /\ split(pin.route)[i] # <<>>

----------------------------------------------------------------------------
(* One client sending the same request again and again, each after the     *)
(* answer to the one before, with the cache store reachable, no entry      *)
(* expiring and the handler returning.  pin keeps what became of the       *)
(* requests answered so far, pout the body text every request carries.     *)

Outcome(s) ==
    [calls |-> Cardinality(Positions(s.log, "call")),
     hit |-> s.res.xCache = "HIT",
     statusCode |-> s.res.statusCode,
     body |-> s.res.body]

IdemInit ==
    /\ jwtSecret \in {"", SigningSecret}
    /\ controllers = <<>>
    /\ store = {}
    /\ rq = [r \in Slots |-> Idle]
    /\ nreq = 0
    /\ pin = <<>>
    /\ pout \in Bodies

\* the client sends its request once more
Again(r) ==
    /\ rq[r].pc = "done"
    /\ nreq < MaxRequests
    /\ nreq' = nreq + 1
    /\ rq' = [rq EXCEPT ![r] = received(rq[r].req)]
    /\ pin' = Append(pin, Outcome(rq[r]))
    /\ UNCHANGED <<jwtSecret, controllers, store, pout>>

IdemNext ==
    \/ \E cls \in ClassNames : nreq = 0 /\ AddController(cls)
    \/ \E req \in Requests : nreq = 0 /\ Receive(1, req)
    \/ Again(1)
    \/ BodyEnd(1, pout)
    \/ CacheGet(1, TRUE)
    \/ WrapperGet(1, TRUE)
    \/ \E outcome \in Results : Original(1, outcome)
    \/ WrapperSet(1, TRUE)
    \/ CacheSet(1, TRUE)

IdemSpec == IdemInit /\ [][IdemNext]_vars

----------------------------------------------------------------------------
(* C5: over a sequence of non-overlapping identical requests to a          *)
(* cacheable route, within the TTL and with a working cache store, the     *)
(* handler is invoked at most once, and every response served from the     *)
(* cache is the JSON the first request returned.                           *)

\* the outcomes of the requests sent so far, the one in slot 1 last
Outcomes == Append(pin, Outcome(rq[1]))

RECURSIVE SumCalls(_)
SumCalls(outcomes) ==
    IF outcomes = <<>> THEN 0 ELSE Head(outcomes).calls + SumCalls(Tail(outcomes))

C5_CacheIdempotence ==
    Cacheable(rq[1])
        => /\ SumCalls(Outcomes) <= 1
           /\ \A i \in 2..Len(Outcomes) :
                  (rq[1].pc = "done" \/ i < Len(Outcomes))
                      => (Outcomes[i].hit => Outcomes[i].body = Outcomes[1].body)

----------------------------------------------------------------------------
(* Two requests in flight in one worker: handleRequest calls interleave at *)
(* their awaits.  The controllers are registered before the first request, *)
(* and no entry expires while the two are handled.                         *)

ConcRequests ==
    {q \in Requests :
        /\ q.pathname # <<"/", "a">>
        /\ q.authorization # "bearer_bad"
        /\ q.contentType = "application/json"}

\* the awaits of the request in slot r settle; the body read rejects on text
\* JSON.parse refuses and resolves on any other
Settle(r) ==
    \/ BodyEnd(r, "invalid")
    \/ \E text \in Bodies \ {"invalid"} : BodyEnd(r, text)
    \/ \E up \in BOOLEAN : CacheGet(r, up)
    \/ \E up \in BOOLEAN : WrapperGet(r, up)
    \/ \E outcome \in Results \cup {Throws} : Original(r, outcome)
    \/ \E up \in BOOLEAN : WrapperSet(r, up)
    \/ \E up \in BOOLEAN : CacheSet(r, up)

ConcNext ==
    \/ \E cls \in ClassNames : nreq = 0 /\ AddController(cls)
    \/ \E r \in Slots, req \in ConcRequests : Receive(r, req)
    \/ \E r \in Slots : Settle(r)

ConcSpec == Init /\ [][ConcNext]_vars

----------------------------------------------------------------------------
(* C11: when the handler of the matched route raises, the request ends     *)
(* with status 500 and the JSON error body, handleRequest completes (the   *)
(* error does not leave it), and the failing request changes nothing       *)
(* another request can observe: the cache store, the controllers, the      *)
(* secret and the other request's own state are as they were.              *)

\* the controller method of the request ran last and gave no result
HandlerRaised(s) ==
    /\ s.log # <<>>
    /\ s.log[Len(s.log)].e = "run"
    /\ s.result = Unset
    /\ s.pc # "orig"

C11_HandlerErrorContained ==
    /\ [](\A r \in Slots : HandlerRaised(rq[r]) => ~Happened(rq[r], "set"))
    /\ [][\A r \in Slots :
             (rq[r].pc = "orig" /\ HandlerRaised(rq'[r]))
                 => /\ rq'[r].pc = "done"
                    /\ rq'[r].res.statusCode = 500
                    /\ rq'[r].res.contentType = "application/json"
                    /\ rq'[r].res.body = JSONstringify(ErrorObject("Internal Server Error"))
                    /\ rq'[r].res.ended = 1
                    /\ store' = store
                    /\ controllers' = controllers
                    /\ jwtSecret' = jwtSecret
                    /\ \A o \in Slots \ {r} : rq'[o] = rq[o]]_vars

\* a handler raised while another request was in flight, and that request
\* was then answered with its handler's result
C11_Witness ==
    \E r \in Slots, o \in Slots :
        /\ r # o
        /\ HandlerRaised(rq[r])
        /\ rq[r].res.statusCode = 500
        /\ rq[o].pc = "done"
        /\ Happened(rq[o], "run")
        /\ rq[o].res.statusCode = 200
        /\ Len(rq[o].log) > 1
----------------------------------------------------------------------------
(* C12: for a request to a route whose handler declares an auth parameter  *)
(* the outcome is decided in this order: no Authorization header, or one   *)
(* that does not start with 'Bearer ', gives 401, also when no secret is   *)
(* configured; else no configured secret gives 500; else a token that      *)
(* fails verification gives 401 with {"error":"Unauthorized"}; else the    *)
(* check succeeds.  Whenever it does not succeed the handler is not        *)
(* invoked.                                                                *)

\* the request in state s was refused with `status` and its handler not invoked
Refused(s, status) ==
    /\ ~Happened(s, "call")
    /\ s.pc = "done" => s.res.statusCode = status

C12_AuthOutcomeOrder ==
    \A r \in Slots :
        DeclaresAuth(rq[r])
            => LET s == rq[r]
                   header == s.req.authorization
               IN  IF ~hasBearer(header) THEN Refused(s, 401)
                   ELSE IF jwtSecret = "" THEN Refused(s, 500)
                   ELSE IF ~verify(header, jwtSecret).ok
                        THEN /\ Refused(s, 401)
                             /\ s.pc = "done"
                                   => s.res.body = JSONstringify(ErrorObject("Unauthorized"))
                   ELSE s.pc \notin {"idle", "body"}
                           => \/ Happened(s, "auth_ok")
                              \/ s.log = <<>>
----------------------------------------------------------------------------
(* C13: for every controller method that declares a BearerAuth parameter,  *)
(* the auth binding BearerAuth recorded is the one the dispatcher looks    *)
(* up, and no request matched to its route reaches the handler without a   *)
(* successful token verification.                                          *)

C13_AuthBindingEnforced ==
    \A r \in Slots :
        DeclaresAuth(rq[r])
            => /\ getAuthParams(rq[r].cls, rq[r].methodName)
                     = AuthOwn(rq[r].cls, "proto", rq[r].methodName)
               /\ Happened(rq[r], "call") => Happened(rq[r], "auth_ok")

----------------------------------------------------------------------------
(* C14: for every method declared with Cache(TTL), the TTL the dispatcher  *)
(* uses for its route, as the expiry of the set on a miss and as max-age   *)
(* of Cache-Control on a hit, is the TTL given at the declaration.         *)

\* the TTL given to the Cache decorator of the matched route's method
DeclaredTTL(s) == CacheTtlOwn(s.cls, "proto", s.methodName)

C14_DeclaredTTLUsed ==
    \A r \in Slots :
        (Cacheable(rq[r]) /\ rq[r].cacheKey # NoKey)
            => /\ rq[r].TTL = DeclaredTTL(rq[r])
               /\ rq[r].res.xCache = "HIT"
                     => rq[r].res.cacheControl = [t |-> "public, max-age", v |-> DeclaredTTL(rq[r])]
               /\ (Happened(rq[r], "set") /\ rq[r].res.statusCode = 200 /\ rq[r].pc = "done")
                     => \A e \in store : e.key = rq[r].cacheKey => e.ttl = DeclaredTTL(rq[r])
----------------------------------------------------------------------------
(* C15: when two requests in flight together have both missed the cache    *)
(* on the same key and both invoked the handler, each set leaves the key   *)
(* holding the JSON of the result of the request that issued it, so the    *)
(* later set wins, and each request is answered exactly once, with status  *)
(* 200 and the JSON of its own result.                                     *)

\* both requests looked up the same key, found nothing and invoked the handler
BothMissed(s, t) ==
    /\ s.cacheKey # NoKey
    /\ s.cacheKey = t.cacheKey
    /\ s.cachedResult = JsNull /\ Happened(s, "call")
    /\ t.cachedResult = JsNull /\ Happened(t, "call")

C15_RaceLastWriteWins ==
    [][\A r \in Slots, o \in Slots :
          (r # o /\ BothMissed(rq[r], rq[o]) /\ rq[r].pc = "set" /\ rq'[r].pc # "set")
              => /\ rq'[r].pc = "done"
                 /\ rq'[r].res.ended = 1
                 /\ rq'[r].res.statusCode = 200
                 /\ rq'[r].res.body = JSONstringify(rq[r].result)
                 /\ \E e \in store' : /\ e.key = rq[r].cacheKey
                                      /\ e.val = JSONstringify(rq[r].result)
                 /\ \A e \in store' : e.key = rq[r].cacheKey
                                          => e.val = JSONstringify(rq[r].result)]_vars
----------------------------------------------------------------------------
(* Requests handled one after the other, each received after the answer to *)
(* the one before, with the cache store reachable, no entry expiring and   *)
(* the handler returning; every request after the first asks for the path *)
(* of the first.  pin keeps the completed calls of handleRequest, oldest   *)
(* first.                                                                  *)

\* the server calls handleRequest again once the call before has completed
Then(r, req) ==
    /\ rq[r].pc = "done"
    /\ nreq < MaxRequests
    /\ nreq' = nreq + 1
    /\ rq' = [rq EXCEPT ![r] = received(req)]
    /\ pin' = Append(pin, rq[r])
    /\ UNCHANGED <<jwtSecret, controllers, store, pout>>

SeqNext ==
    \/ \E cls \in ClassNames : nreq = 0 /\ AddController(cls)
    \/ \E req \in Requests : nreq = 0 /\ Receive(1, req)
    \/ \E req \in Requests : req.pathname = rq[1].req.pathname /\ Then(1, req)
    \/ \E text \in Bodies : BodyEnd(1, text)
    \/ CacheGet(1, TRUE)
    \/ WrapperGet(1, TRUE)
    \/ \E outcome \in Results : Original(1, outcome)
    \/ WrapperSet(1, TRUE)
    \/ CacheSet(1, TRUE)

SeqSpec == Init /\ [][SeqNext]_vars

----------------------------------------------------------------------------
(* C16: the dispatcher's cache key depends on the matched route's full     *)
(* path and the bound path params only, so a request to a cacheable route  *)
(* that follows, within the TTL, an answered request to the same route     *)
(* with equal path params, whatever its body, headers and query string,    *)
(* uses the same key and is answered with the stored result of the first   *)
(* without the handler being invoked.                                      *)

\* (the first request counts once its handler has returned a result)

\* s and t were matched to the same route with equal path params
SameRouteAndParams(s, t) ==
    /\ s.idx > 0 /\ t.idx > 0
    /\ s.cls = t.cls
    /\ s.methodName = t.methodName
    /\ s.fullPath = t.fullPath
    /\ assignCaptures(matchRoute(s.fullPath, s.req.pathname).params,
                      split(s.fullPath), split(s.req.pathname), 1)
          = assignCaptures(matchRoute(t.fullPath, t.req.pathname).params,
                           split(t.fullPath), split(t.req.pathname), 1)

C16_KeyIgnoresBodyHeadersQuery ==
    \A i \in 1..Len(pin) :
        (/\ Cacheable(pin[i])
         /\ pin[i].result # Unset
         /\ SameRouteAndParams(pin[i], rq[1]))
            => /\ rq[1].cacheKey # NoKey => rq[1].cacheKey = pin[i].cacheKey
               /\ rq[1].pc = "done"
                     => /\ rq[1].res.xCache = "HIT"
                        /\ rq[1].res.body = JSONstringify(pin[i].result)
                        /\ ~Happened(rq[1], "call")

----------------------------------------------------------------------------
(* C17: a response served from the cache to a request matched to a         *)
(* cacheable route was stored by an earlier invocation of that route's     *)
(* own handler, never by a different registered route.                     *)

\* the completed request f stored, under `key`, what its handler returned
StoredBy(f, key) ==
    /\ f.cacheKey = key
    /\ \E j \in 1..Len(f.log) : f.log[j].e = "set" /\ f.log[j].k = key
    /\ f.res.statusCode = 200

C17_HitStoredBySameRoute ==
    (rq[1].pc = "done" /\ rq[1].res.xCache = "HIT")
        => \E i \in 1..Len(pin) :
              /\ StoredBy(pin[i], rq[1].cacheKey)
              /\ pin[i].cls = rq[1].cls
              /\ pin[i].methodName = rq[1].methodName
              /\ rq[1].res.body = JSONstringify(pin[i].result)
----------------------------------------------------------------------------
(* C18: while a request to a cacheable route is handled, every cache-store *)
(* call made for it is on the derived key fullPath + ':' + JSON(path       *)
(* params): a hit makes one get and no set, a miss one get and one set.    *)

\* the number of cache-store calls `op` made for the request
Calls(s, op) == Cardinality(Positions(s.log, op))

C18_OnlyDerivedKeyTouched ==
    \A r \in Slots :
        Cacheable(rq[r])
            => LET s == rq[r]
               IN  /\ \A i \in 1..Len(s.log) :
                         s.log[i].e \in {"get", "set"} => s.log[i].k = s.cacheKey
                   /\ (s.pc = "done" /\ s.res.xCache = "HIT")
                         => Calls(s, "get") = 1 /\ Calls(s, "set") = 0
                   /\ (s.pc = "done" /\ s.cachedResult = JsNull /\ s.res.statusCode = 200)
                         => Calls(s, "get") = 1 /\ Calls(s, "set") = 1
----------------------------------------------------------------------------
(* The full path of a route on its own: a controller prefix and a route    *)
(* path go through Controller, the method decorator and the first lines    *)
(* of the route loop.  pin is the declaration, pout the pattern.           *)

Prefixes ==
    { <<>>, <<"/">>, <<"q">>, <<"/", "q">>, <<"q", "/">>, <<"/", "q", "/">>,
      <<"q", "/", "r">> }

RoutePaths ==
    { <<>>, <<"/">>, <<"p">>, <<"/", "p">>, <<"p", "/">>, <<":", "x">>,
      <<"p", "/", ":", "x">>, <<"/", "p", "/", ":", "x">> }

\* Controller(path): path || ''
normalizedPath(path) == IF path = <<>> THEN <<>> ELSE path

NotJoined == [done |-> FALSE, fullPath |-> <<>>]

JoinInit ==
    /\ jwtSecret = ""
    /\ controllers = <<>>
    /\ store = {}
    /\ rq = [r \in Slots |-> Idle]
    /\ nreq = 0
    /\ pin \in [prefix : Prefixes, path : RoutePaths]
    /\ pout = NotJoined

\* the decorators run, then the route loop builds fullPath
Join ==
    /\ ~pout.done
    /\ LET route == createMethodDecorator(Member("m", FALSE, "get", pin.path, 0, <<>>))
       IN  pout' = [done |-> TRUE,
                    fullPath |-> fullPathOf(normalizedPath(pin.prefix), route)]
    /\ UNCHANGED <<jwtSecret, controllers, store, rq, nreq, pin>>

JoinNext == Join

JoinSpec == JoinInit /\ [][JoinNext]_vars

----------------------------------------------------------------------------
(* C19: for every controller prefix and route path the pattern the         *)
(* dispatcher matches against is the segments of the prefix and of the     *)
(* route path joined by single slashes: it has no two consecutive          *)
(* slashes and no trailing slash, and the request path made of those       *)
(* segments is matched by it.                                              *)

\* the non-empty segments of a string
Segments(str) == SelectSeq(split(str), LAMBDA seg : seg # <<>>)

\* '/q/p': the segments of prefix and route path, each after one slash
Joined(prefix, path) == joinSegments(Segments(prefix) \o Segments(path))

C19_FullPathNormalised ==
    (pout.done /\ Joined(pin.prefix, pin.path) # <<>>)
        => /\ \A i \in 1..(Len(pout.fullPath) - 1) :
                  ~(pout.fullPath[i] = "/" /\ pout.fullPath[i + 1] = "/")
           /\ pout.fullPath[Len(pout.fullPath)] # "/"
           /\ pout.fullPath = Joined(pin.prefix, pin.path)
           /\ inlineTest(pout.fullPath, Joined(pin.prefix, pin.path))
----------------------------------------------------------------------------
(* Two requests in flight where every await of the first settles (it       *)
(* returns or raises) and nothing is assumed of the second: its body read  *)
(* or cache-store call may stay pending for ever.                          *)

LiveSpec == Init /\ [][ConcNext]_vars /\ WF_vars(Settle(1))

----------------------------------------------------------------------------
(* C20: a request whose external steps (body read, token verification,     *)
(* cache-store calls, handler invocation) all return or raise eventually   *)
(* has its response written, also while another request in flight waits    *)
(* for ever on its body or on the cache store.                             *)

C20_EventuallyAnswered ==
    (rq[1].pc \notin {"idle", "done"}) ~> (rq[1].pc = "done" /\ rq[1].res.ended = 1)

\* the first request has been answered after awaiting, while the second
\* still waits for its body or for the cache store
C20_Witness ==
    /\ rq[1].pc = "done"
    /\ rq[1].res.ended = 1
    /\ rq[1].log # <<>>
    /\ rq[2].pc \in {"body", "get", "wget", "wset", "set"}
====
